---- MODULE Spec2Model ----
(***************************************************************************)
(* Model of pkg/istiodcert/worker.go: the DynamicIstiodCertProvisioner.    *)
(*                                                                         *)
(* Tasks: the event loop (Start / handleNewIssuer), the controller's       *)
(* dispatch layer (channel source, watch predicate, work queue) and the   *)
(* concurrently dispatched Reconcile invocations.  The environment is the  *)
(* issuer change notifier, the certificate store (with failing calls),    *)
(* other writers of certificates, and the governing context.               *)
(***************************************************************************)
EXTENDS Integers, Sequences, FiniteSets, TLC

\* ------------------------------------------------------------------ bounds
\* notifications the issuer change notifier sends in one run
MaxNotifs == 2
\* Reconcile invocations the dispatch layer may have in flight at once
NumWorkers == 2

\* longest opts.IstioRevisions the desired-name computation is checked for
MaxRevisions == 2
\* longest opts.AdditionalDNSNames the desired-name computation is checked for
MaxAdditional == 1

Workers == 1..NumWorkers

\* ------------------------------------------------------------ data values
\* a nil *cmmeta.ObjectReference
Nil == [isNil |-> TRUE]

IssuerA == [Name |-> "ca-a", Kind |-> "Issuer", Group |-> "cert-manager.io"]
IssuerB == [Name |-> "ca-b", Kind |-> "ClusterIssuer", Group |-> "cert-manager.io"]

\* the non-nil issuer references of the model
IssuerRefs == {IssuerA, IssuerB}

\* values of type *cmmeta.ObjectReference
IssuerPtrs == IssuerRefs \cup {Nil}

\* what issuerChangeNotifier.InitialIssuer() may return
InitialIssuers == {Nil, IssuerA}

\* Options captured at construction (opts)
OptsRevisions ==
    [CertificateName      |-> "istiod-dynamic",
     CertificateNamespace |-> "istio-system",
     IstioRevisions       |-> <<"default", "canary">>,
     AdditionalDNSNames   |-> <<"extra.example.com">>,
     Duration             |-> 3600,
     RenewBefore          |-> 1800,
     CMKeyAlgorithm       |-> "RSA",
     KeySize              |-> 2048]

OptionSets == {OptsRevisions}

\* the sequences over S of length at most n
SeqsUpTo(S, n) == UNION {[1..k -> S] : k \in 0..n}

\* the options the desired-name computation is checked for: every namespace,
\* every list of revisions and every list of additional names within the bounds
Namespaces == {"istio-system", "foo"}
RevisionNames == {"default", "canary"}
AdditionalNames == {"extra.example.com", "b.example.com"}

NameOptionSets ==
    {[OptsRevisions EXCEPT !.CertificateNamespace = ns,
                           !.IstioRevisions = revs,
                           !.AdditionalDNSNames = adds] :
        ns \in Namespaces,
        revs \in SeqsUpTo(RevisionNames, MaxRevisions),
        adds \in SeqsUpTo(AdditionalNames, MaxAdditional)}

TrustDomains == {"cluster.local"}

\* identities of certificate objects in the cluster
Identity(name, namespace) == [Name |-> name, Namespace |-> namespace]

\* certificates of the cluster that are not the managed one
OtherCerts ==
    {Identity("other-cert", "istio-system"),
     Identity("istiod-dynamic", "other-ns")}

Identities == {Identity("istiod-dynamic", "istio-system")} \cup OtherCerts

\* no object / no value markers
NoCert == [exists |-> FALSE]
NoEvent == [event |-> FALSE]
NoReq == [request |-> FALSE]
NoSpec == [spec |-> FALSE]
NoResult == [returned |-> FALSE]

\* ctrl.Result{}, err
Result(err) == [returned |-> TRUE, err |-> err]

\* error conditions a store call can fail with, besides the ones the
\* model derives from the store's contents
GetErrors == {"ServerTimeout", "Forbidden"}
WriteErrors == {"ServerTimeout"}

\* ------------------------------------------------------------------ state
VARIABLES
    opts,              \* dicp.opts
    trustDomain,       \* dicp.trustDomain
    initialIssuerRef,  \* dicp.initialIssuerRef
    issuerRef,         \* dicp.issuerRef
    issuerRefMutex,    \* dicp.issuerRefMutex: "free", "loop" or a worker
    issuerChangeChan,  \* dicp.issuerChangeChan: values sent, not yet received
    reconcileChan,     \* dicp.reconcileChan: the event offered by a blocked send
    cancelled,         \* ctx.Done() is closed
    loopPc,            \* position of Start / handleNewIssuer
    newIssuer,         \* the value Start received and passed to handleNewIssuer
    dispatching,       \* the controller still receives events and starts reconciles
    workqueue,         \* reconcile requests queued by the controller
    recPc,             \* position of each Reconcile invocation
    recReq,            \* req of each Reconcile invocation
    recDesired,        \* desiredSpec of each Reconcile invocation
    recFetched,        \* cert returned by Get in each Reconcile invocation
    recOps,            \* store calls issued by each Reconcile invocation
    recResult,         \* what each Reconcile invocation returns
    store,             \* the certificates in the cluster
    sent,              \* history: every notification sent, in order
    handled,           \* history: every notification received by Start, in order
    offered,           \* history: number of events offered on reconcileChan
    lastDone           \* history: last successful write, while nothing interfered

progVars == <<opts, trustDomain, initialIssuerRef, issuerRef, issuerRefMutex,
              issuerChangeChan, reconcileChan, cancelled, loopPc, newIssuer,
              dispatching, workqueue>>
recVars == <<recPc, recReq, recDesired, recFetched, recOps, recResult>>
histVars == <<sent, handled, offered, lastDone>>
vars == <<progVars, recVars, store, histVars>>

\* ------------------------------------------------------- helper operators
Free == <<"free", 0>>
LoopOwner == <<"loop", 0>>
ReconcileOwner(w) == <<"reconcile", w>>

NoDone == [done |-> FALSE]

\* the certificate stored under an identity, when there is one
StoreGet(id) == IF id \in DOMAIN store THEN store[id] ELSE NoCert

\* mutant: the common name is taken from the first DNS name
makeDNSNamesFirstAsCommonName(namespace, istioRevisions) ==
    LET revisions == IF Len(istioRevisions) = 0 THEN <<"default">> ELSE istioRevisions
        defaultSAN == "istiod." \o namespace \o ".svc"
        dnsNames == [i \in 1..Len(revisions) |->
                        IF revisions[i] = "default"
                        THEN defaultSAN
                        ELSE "istiod" \o revisions[i] \o "." \o namespace \o ".svc"]
    IN  <<dnsNames[1], dnsNames>>

\* makeDNSNamesFromRevisions: <<commonName, dnsNames>>
makeDNSNamesFromRevisions(namespace, istioRevisions) ==
    LET revisions == IF Len(istioRevisions) = 0 THEN <<"default">> ELSE istioRevisions
        defaultSAN == "istiod." \o namespace \o ".svc"
        dnsNames == [i \in 1..Len(revisions) |->
                        IF revisions[i] = "default"
                        THEN defaultSAN
                        ELSE "istiod" \o revisions[i] \o "." \o namespace \o ".svc"]
    IN  <<defaultSAN, dnsNames>>

\* the desiredSpec Reconcile assembles for req from the issuer reference ref
DesiredSpec(req, ref) ==
    LET spiffeID == "spiffe://" \o trustDomain \o "/ns/" \o req.Namespace
                        \o "/sa/istiod-service-account"
        names == makeDNSNamesFromRevisions(req.Namespace, opts.IstioRevisions)
        dnsNames == IF Len(opts.AdditionalDNSNames) > 0
                    THEN names[2] \o opts.AdditionalDNSNames
                    ELSE names[2]
    IN  [CommonName           |-> names[1],
         DNSNames             |-> dnsNames,
         URIs                 |-> <<spiffeID>>,
         SecretName           |-> "istiod-tls",
         Duration             |-> opts.Duration,
         RenewBefore          |-> opts.RenewBefore,
         PrivateKey           |-> [RotationPolicy |-> "Always",
                                   Algorithm      |-> opts.CMKeyAlgorithm,
                                   Size           |-> opts.KeySize],
         RevisionHistoryLimit |-> 1,
         IssuerRef            |-> ref]

\* the certificate Reconcile creates when Get reports not-found
NewCert(req, desired) ==
    [exists |-> TRUE, Name |-> req.Name, Namespace |-> req.Namespace,
     Labels |-> "", Spec |-> desired]

\* mutant: the update patches the issuer reference into the fetched spec
UpdatedCertPatched(fetched, desired) ==
    [fetched EXCEPT !.Spec.IssuerRef = desired.IssuerRef]

\* mutant: the update appends the desired DNS names to the fetched ones
UpdatedCertAppending(fetched, desired) ==
    [fetched EXCEPT !.Spec = [desired EXCEPT
                                !.DNSNames = fetched.Spec.DNSNames \o desired.DNSNames]]

\* the certificate Reconcile updates: the fetched one with cert.Spec = desiredSpec
UpdatedCert(fetched, desired) == [fetched EXCEPT !.Spec = desired]

\* a certificate written by some other party
ForeignCert(id) ==
    [exists |-> TRUE, Name |-> id.Name, Namespace |-> id.Namespace,
     Labels |-> "external",
     Spec |-> [CommonName           |-> "foreign.example.com",
               DNSNames             |-> <<"foreign.example.com">>,
               URIs                 |-> <<>>,
               SecretName           |-> "foreign-tls",
               Duration             |-> 60,
               RenewBefore          |-> 30,
               PrivateKey           |-> [RotationPolicy |-> "Never",
                                         Algorithm      |-> "ECDSA",
                                         Size           |-> 256],
               RevisionHistoryLimit |-> 3,
               IssuerRef            |-> [Name  |-> "foreign-ca",
                                         Kind  |-> "Issuer",
                                         Group |-> "cert-manager.io"]]]

\* mutant: the test for the initial reference is inverted
RestoresInitialInverted(update) == update = Nil /\ initialIssuerRef = Nil

\* handleNewIssuer's test: a nil update while an initial reference exists
RestoresInitial(update) == update = Nil /\ initialIssuerRef # Nil

\* mutant: the update is assigned without the fallback to the initial reference
DecidedIssuerNoFallback(update) == update

\* mutant: an active reference, once set, is kept (first write wins)
DecidedIssuerKeepsFirst(update) == IF issuerRef # Nil THEN issuerRef ELSE update

\* mutant: a nil update leaves the active reference as it is
DecidedIssuerIgnoresNil(update) == IF update = Nil THEN issuerRef ELSE update

\* the value handleNewIssuer assigns to dicp.issuerRef
DecidedIssuer(update) ==
    IF RestoresInitial(update) THEN initialIssuerRef ELSE update

\* mutant: name and namespace of the event's object are swapped
TriggerEventSwapped ==
    [event |-> TRUE,
     Object |-> Identity(opts.CertificateNamespace, opts.CertificateName)]

\* the event.GenericEvent handleNewIssuer sends on reconcileChan
TriggerEvent ==
    [event |-> TRUE,
     Object |-> Identity(opts.CertificateName, opts.CertificateNamespace)]

\* mutant: the predicate of the watch compares the name only
CertPredicateNameOnly(obj) == obj.Name = opts.CertificateName

\* the predicate of the watch on certificates
CertPredicate(obj) ==
    obj.Name = opts.CertificateName /\ obj.Namespace = opts.CertificateNamespace

\* the map function of the channel source: the requests enqueued for an event
ChannelMapFunc(obj) ==
    {Identity(opts.CertificateName, opts.CertificateNamespace)}

\* the work queue after the watch on certificates saw a change of obj
WatchEnqueue(queue, obj) ==
    IF dispatching /\ CertPredicate(obj)
    THEN queue \cup {Identity(obj.Name, obj.Namespace)}
    ELSE queue

\* the work queue after Reconcile returned result for req: the controller
\* queues the request again when Reconcile returned an error
Requeue(queue, req, result) ==
    IF dispatching /\ result.err # "nil" THEN queue \cup {req} ELSE queue

\* mutant: the test for a missing issuer is inverted
NoIssuerInverted(ref) == ref # Nil

\* Reconcile's test: no issuerRef is set
NoIssuer(ref) == ref = Nil

\* mutant: the failure of Get is swallowed
FetchFailureSwallowed(e) == Result("nil")

\* what Reconcile returns when Get fails with a condition e other than not-found
FetchFailure(e) == Result("failed to fetch cert: " \o e)

\* the key the namespaced client reads and writes for a name
ClientKey(name) == Identity(name, opts.CertificateNamespace)

\* ------------------------------------------------------------------- Init
Init ==
    /\ opts \in OptionSets
    /\ trustDomain \in TrustDomains
    /\ initialIssuerRef \in InitialIssuers
    /\ issuerRef = initialIssuerRef
    /\ issuerRefMutex = Free
    /\ issuerChangeChan = <<>>
    /\ reconcileChan = NoEvent
    /\ cancelled = FALSE
    /\ loopPc = "select"
    /\ newIssuer = Nil
    /\ dispatching = TRUE
    /\ workqueue = {}
    /\ recPc = [w \in Workers |-> "idle"]
    /\ recReq = [w \in Workers |-> NoReq]
    /\ recDesired = [w \in Workers |-> NoSpec]
    /\ recFetched = [w \in Workers |-> NoCert]
    /\ recOps = [w \in Workers |-> <<>>]
    /\ recResult = [w \in Workers |-> NoResult]
    /\ store = [id \in Identities |->
                    IF id \in OtherCerts THEN ForeignCert(id) ELSE NoCert]
    /\ sent = <<>>
    /\ handled = <<>>
    /\ offered = 0
    /\ lastDone = NoDone

\* ------------------------------------------------------------ environment
\* the issuer change notifier sends a value (nil included) on issuerChangeChan
Notify ==
    \E v \in IssuerPtrs :
        /\ Len(sent) < MaxNotifs
        /\ issuerChangeChan' = Append(issuerChangeChan, v)
        /\ sent' = Append(sent, v)
        /\ UNCHANGED <<opts, trustDomain, initialIssuerRef, issuerRef, issuerRefMutex,
                       reconcileChan, cancelled, loopPc, newIssuer, dispatching,
                       workqueue, recVars, store, handled, offered, lastDone>>

\* the governing context is cancelled
Cancel ==
    /\ ~cancelled
    /\ cancelled' = TRUE
    /\ UNCHANGED <<opts, trustDomain, initialIssuerRef, issuerRef, issuerRefMutex,
                   issuerChangeChan, reconcileChan, loopPc, newIssuer, dispatching,
                   workqueue, recVars, store, histVars>>

\* after cancellation the controller stops receiving events and starting reconciles
DispatcherStop ==
    /\ cancelled
    /\ dispatching
    /\ dispatching' = FALSE
    /\ UNCHANGED <<opts, trustDomain, initialIssuerRef, issuerRef, issuerRefMutex,
                   issuerChangeChan, reconcileChan, cancelled, loopPc, newIssuer,
                   workqueue, recVars, store, histVars>>

\* the watch on certificates delivers an event for one of the other
\* certificates of the cluster (events for the managed certificate follow
\* the writes to it: WriteOK, ExternalEdit)
CertEvent ==
    \E id \in OtherCerts :
        /\ store[id] # NoCert
        /\ workqueue' = WatchEnqueue(workqueue, id)
        /\ UNCHANGED <<opts, trustDomain, initialIssuerRef, issuerRef, issuerRefMutex,
                       issuerChangeChan, reconcileChan, cancelled, loopPc, newIssuer,
                       dispatching, recVars, store, histVars>>

\* another party overwrites a certificate; the watch on certificates sees the
\* change
ExternalEdit ==
    \E id \in DOMAIN store : LET cert == ForeignCert(id) IN
        /\ store[id] # cert
        /\ store' = [store EXCEPT ![id] = cert]
        /\ workqueue' = WatchEnqueue(workqueue, id)
        /\ lastDone' = NoDone
        /\ UNCHANGED <<opts, trustDomain, initialIssuerRef, issuerRef, issuerRefMutex,
                       issuerChangeChan, reconcileChan, cancelled, loopPc, newIssuer,
                       dispatching, recVars, sent, handled, offered>>

\* ------------------------------------------------------- Start: event loop
\* select: case <-ctx.Done(): return nil
LoopCancel ==
    /\ loopPc = "select"
    /\ cancelled
    /\ loopPc' = "returned"
    /\ UNCHANGED <<opts, trustDomain, initialIssuerRef, issuerRef, issuerRefMutex,
                   issuerChangeChan, reconcileChan, cancelled, newIssuer, dispatching,
                   workqueue, recVars, store, histVars>>

\* select: case newIssuer := <-dicp.issuerChangeChan: dicp.handleNewIssuer(newIssuer)
LoopRecv ==
    /\ loopPc = "select"
    /\ issuerChangeChan # <<>>
    /\ newIssuer' = Head(issuerChangeChan)
    /\ issuerChangeChan' = Tail(issuerChangeChan)
    /\ handled' = Append(handled, Head(issuerChangeChan))
    /\ loopPc' = "lock"
    /\ UNCHANGED <<opts, trustDomain, initialIssuerRef, issuerRef, issuerRefMutex,
                   reconcileChan, cancelled, dispatching, workqueue, recVars, store,
                   sent, offered, lastDone>>

\* mutant: handleNewIssuer enters without waiting for the mutex to be free
HandleLockNoWait ==
    /\ loopPc = "lock"
    /\ issuerRefMutex' = LoopOwner
    /\ loopPc' = "decide"
    /\ UNCHANGED <<opts, trustDomain, initialIssuerRef, issuerRef, issuerChangeChan,
                   reconcileChan, cancelled, newIssuer, dispatching, workqueue,
                   recVars, store, histVars>>

\* handleNewIssuer: dicp.issuerRefMutex.Lock()
HandleLock ==
    /\ loopPc = "lock"
    /\ issuerRefMutex = Free
    /\ issuerRefMutex' = LoopOwner
    /\ loopPc' = "decide"
    /\ UNCHANGED <<opts, trustDomain, initialIssuerRef, issuerRef, issuerChangeChan,
                   reconcileChan, cancelled, newIssuer, dispatching, workqueue,
                   recVars, store, histVars>>

\* mutant: reconcileChan has a buffer, the send returns without a receiver
HandleDecideBuffered ==
    /\ loopPc = "decide"
    /\ issuerRef' = DecidedIssuer(newIssuer)
    /\ loopPc' = "unlock"
    /\ IF RestoresInitial(newIssuer)
       THEN UNCHANGED <<reconcileChan, offered>>
       ELSE /\ reconcileChan' = TriggerEvent
            /\ offered' = offered + 1
    /\ lastDone' = NoDone
    /\ UNCHANGED <<opts, trustDomain, initialIssuerRef, issuerRefMutex,
                   issuerChangeChan, cancelled, newIssuer, dispatching, workqueue,
                   recVars, store, sent, handled>>

\* mutant: the handler also records the decided value as the initial reference
HandleDecideOverwritesInitial ==
    /\ loopPc = "decide"
    /\ issuerRef' = DecidedIssuer(newIssuer)
    /\ initialIssuerRef' = DecidedIssuer(newIssuer)
    /\ IF RestoresInitial(newIssuer)
       THEN /\ loopPc' = "unlock"
            /\ UNCHANGED <<reconcileChan, offered>>
       ELSE /\ loopPc' = "send"
            /\ reconcileChan' = TriggerEvent
            /\ offered' = offered + 1
    /\ lastDone' = NoDone
    /\ UNCHANGED <<opts, trustDomain, issuerRefMutex,
                   issuerChangeChan, cancelled, newIssuer, dispatching, workqueue,
                   recVars, store, sent, handled>>

\* handleNewIssuer: the assignment of dicp.issuerRef; either the early return
\* or the start of the send on reconcileChan
HandleDecide ==
    /\ loopPc = "decide"
    /\ issuerRef' = DecidedIssuer(newIssuer)
    /\ IF RestoresInitial(newIssuer)
       THEN /\ loopPc' = "unlock"
            /\ UNCHANGED <<reconcileChan, offered>>
       ELSE /\ loopPc' = "send"
            /\ reconcileChan' = TriggerEvent
            /\ offered' = offered + 1
    /\ lastDone' = NoDone
    /\ UNCHANGED <<opts, trustDomain, initialIssuerRef, issuerRefMutex,
                   issuerChangeChan, cancelled, newIssuer, dispatching, workqueue,
                   recVars, store, sent, handled>>

\* the channel source of the controller receives the event offered on
\* reconcileChan and enqueues the requests its map function returns
AcceptTrigger ==
    /\ loopPc = "send"
    /\ dispatching
    /\ reconcileChan # NoEvent
    /\ workqueue' = workqueue \cup ChannelMapFunc(reconcileChan.Object)
    /\ reconcileChan' = NoEvent
    /\ loopPc' = "unlock"
    /\ UNCHANGED <<opts, trustDomain, initialIssuerRef, issuerRef, issuerRefMutex,
                   issuerChangeChan, cancelled, newIssuer, dispatching, recVars,
                   store, histVars>>

\* handleNewIssuer returns: the deferred dicp.issuerRefMutex.Unlock()
HandleReturn ==
    /\ loopPc = "unlock"
    /\ issuerRefMutex' = Free
    /\ loopPc' = "select"
    /\ newIssuer' = Nil
    /\ UNCHANGED <<opts, trustDomain, initialIssuerRef, issuerRef, issuerChangeChan,
                   reconcileChan, cancelled, dispatching, workqueue, recVars, store,
                   histVars>>

\* ---------------------------------------------------------------- Reconcile
\* the controller takes a request from the work queue and invokes Reconcile
StartReconcile(w) ==
    /\ dispatching
    /\ recPc[w] = "idle"
    /\ \A v \in Workers : v < w => recPc[v] # "idle"
    /\ \E req \in workqueue :
        /\ workqueue' = workqueue \ {req}
        /\ recReq' = [recReq EXCEPT ![w] = req]
    /\ recPc' = [recPc EXCEPT ![w] = "lock"]
    /\ UNCHANGED <<opts, trustDomain, initialIssuerRef, issuerRef, issuerRefMutex,
                   issuerChangeChan, reconcileChan, cancelled, loopPc, newIssuer,
                   dispatching, recDesired, recFetched, recOps, recResult, store,
                   histVars>>

\* mutant: Reconcile enters without waiting for the mutex to be free
RecLockNoWait(w) ==
    /\ recPc[w] = "lock"
    /\ issuerRefMutex' = ReconcileOwner(w)
    /\ recPc' = [recPc EXCEPT ![w] = "check"]
    /\ UNCHANGED <<opts, trustDomain, initialIssuerRef, issuerRef, issuerChangeChan,
                   reconcileChan, cancelled, loopPc, newIssuer, dispatching,
                   workqueue, recReq, recDesired, recFetched, recOps, recResult,
                   store, histVars>>

\* Reconcile: dicp.issuerRefMutex.Lock()
RecLock(w) ==
    /\ recPc[w] = "lock"
    /\ issuerRefMutex = Free
    /\ issuerRefMutex' = ReconcileOwner(w)
    /\ recPc' = [recPc EXCEPT ![w] = "check"]
    /\ UNCHANGED <<opts, trustDomain, initialIssuerRef, issuerRef, issuerChangeChan,
                   reconcileChan, cancelled, loopPc, newIssuer, dispatching,
                   workqueue, recReq, recDesired, recFetched, recOps, recResult,
                   store, histVars>>

\* Reconcile: the nil test of dicp.issuerRef and the assembly of desiredSpec
RecCheck(w) ==
    /\ recPc[w] = "check"
    /\ IF NoIssuer(issuerRef)
       THEN /\ recResult' = [recResult EXCEPT ![w] = Result("nil")]
            /\ recPc' = [recPc EXCEPT ![w] = "ret"]
            /\ UNCHANGED recDesired
       ELSE /\ recDesired' = [recDesired EXCEPT ![w] = DesiredSpec(recReq[w], issuerRef)]
            /\ recPc' = [recPc EXCEPT ![w] = "get"]
            /\ UNCHANGED recResult
    /\ UNCHANGED <<progVars, recReq, recFetched, recOps, store, histVars>>

\* Reconcile: dicp.certManagerClient.Get and the branch on its outcome
RecGet(w, errs) ==
    /\ recPc[w] = "get"
    /\ recOps' = [recOps EXCEPT ![w] = Append(@, "get")]
    /\ \/ \E e \in errs :
            /\ recResult' = [recResult EXCEPT ![w] = FetchFailure(e)]
            /\ recPc' = [recPc EXCEPT ![w] = "ret"]
            /\ UNCHANGED recFetched
       \/ /\ StoreGet(ClientKey(recReq[w].Name)) = NoCert
          /\ recPc' = [recPc EXCEPT ![w] = "create"]
          /\ UNCHANGED <<recFetched, recResult>>
       \/ /\ StoreGet(ClientKey(recReq[w].Name)) # NoCert
          /\ recFetched' = [recFetched EXCEPT
                                ![w] = StoreGet(ClientKey(recReq[w].Name))]
          /\ recPc' = [recPc EXCEPT ![w] = "update"]
          /\ UNCHANGED recResult
    /\ UNCHANGED <<progVars, recReq, recDesired, store, sent, handled, offered,
                   lastDone>>

\* the effect of a successful write of cert by Reconcile invocation w
WriteOK(w, cert) ==
    /\ store' = [store EXCEPT ![Identity(cert.Name, cert.Namespace)] = cert]
    /\ workqueue' = IF StoreGet(Identity(cert.Name, cert.Namespace)) = cert
                    THEN workqueue
                    ELSE WatchEnqueue(workqueue, cert)
    /\ recResult' = [recResult EXCEPT ![w] = Result("nil")]
    /\ lastDone' = [done |-> TRUE, req |-> recReq[w], spec |-> cert.Spec]

\* the effect of a failed write by Reconcile invocation w
WriteFails(w, e) ==
    /\ recResult' = [recResult EXCEPT ![w] = Result(e)]
    /\ UNCHANGED <<store, workqueue, lastDone>>

\* Reconcile: dicp.certManagerClient.Create; its outcome is returned
RecCreate(w, errs) ==
    /\ recPc[w] = "create"
    /\ recOps' = [recOps EXCEPT ![w] = Append(@, "create")]
    /\ recPc' = [recPc EXCEPT ![w] = "ret"]
    /\ LET cert == NewCert(recReq[w], recDesired[w])
       IN  \/ \E e \in errs : WriteFails(w, e)
           \/ /\ cert.Namespace # opts.CertificateNamespace
              /\ WriteFails(w, "BadRequest")
           \/ /\ cert.Namespace = opts.CertificateNamespace
              /\ StoreGet(ClientKey(cert.Name)) # NoCert
              /\ WriteFails(w, "AlreadyExists")
           \/ /\ cert.Namespace = opts.CertificateNamespace
              /\ StoreGet(ClientKey(cert.Name)) = NoCert
              /\ WriteOK(w, cert)
    /\ UNCHANGED <<opts, trustDomain, initialIssuerRef, issuerRef, issuerRefMutex,
                   issuerChangeChan, reconcileChan, cancelled, loopPc, newIssuer,
                   dispatching, recReq, recDesired, recFetched, sent, handled,
                   offered>>

\* Reconcile: cert.Spec = desiredSpec; dicp.certManagerClient.Update; its
\* outcome is returned
RecUpdate(w, errs) ==
    /\ recPc[w] = "update"
    /\ recOps' = [recOps EXCEPT ![w] = Append(@, "update")]
    /\ recPc' = [recPc EXCEPT ![w] = "ret"]
    /\ LET cert == UpdatedCert(recFetched[w], recDesired[w])
       IN  \/ \E e \in errs : WriteFails(w, e)
           \/ /\ StoreGet(ClientKey(cert.Name)) = NoCert
              /\ WriteFails(w, "NotFound")
           \/ /\ StoreGet(ClientKey(cert.Name)) \notin {NoCert, recFetched[w]}
              /\ WriteFails(w, "Conflict")
           \/ /\ StoreGet(ClientKey(cert.Name)) = recFetched[w]
              /\ WriteOK(w, cert)
    /\ UNCHANGED <<opts, trustDomain, initialIssuerRef, issuerRef, issuerRefMutex,
                   issuerChangeChan, reconcileChan, cancelled, loopPc, newIssuer,
                   dispatching, recReq, recDesired, recFetched, sent, handled,
                   offered>>

\* mutant: Reconcile returns without the deferred Unlock
RecReturnKeepsLock(w) ==
    /\ recPc[w] = "ret"
    /\ recPc' = [recPc EXCEPT ![w] = "idle"]
    /\ recReq' = [recReq EXCEPT ![w] = NoReq]
    /\ recDesired' = [recDesired EXCEPT ![w] = NoSpec]
    /\ recFetched' = [recFetched EXCEPT ![w] = NoCert]
    /\ recOps' = [recOps EXCEPT ![w] = <<>>]
    /\ recResult' = [recResult EXCEPT ![w] = NoResult]
    /\ workqueue' = Requeue(workqueue, recReq[w], recResult[w])
    /\ UNCHANGED <<opts, trustDomain, initialIssuerRef, issuerRef, issuerRefMutex,
                   issuerChangeChan, reconcileChan, cancelled, loopPc, newIssuer,
                   dispatching, store, histVars>>

\* Reconcile returns: the deferred dicp.issuerRefMutex.Unlock()
RecReturn(w) ==
    /\ recPc[w] = "ret"
    /\ issuerRefMutex' = Free
    /\ recPc' = [recPc EXCEPT ![w] = "idle"]
    /\ recReq' = [recReq EXCEPT ![w] = NoReq]
    /\ recDesired' = [recDesired EXCEPT ![w] = NoSpec]
    /\ recFetched' = [recFetched EXCEPT ![w] = NoCert]
    /\ recOps' = [recOps EXCEPT ![w] = <<>>]
    /\ recResult' = [recResult EXCEPT ![w] = NoResult]
    /\ workqueue' = Requeue(workqueue, recReq[w], recResult[w])
    /\ UNCHANGED <<opts, trustDomain, initialIssuerRef, issuerRef, issuerChangeChan,
                   reconcileChan, cancelled, loopPc, newIssuer, dispatching,
                   store, histVars>>

\* ------------------------------------------------------------ specification
Reconciling == \E w \in Workers : StartReconcile(w)
ReconcileLock == \E w \in Workers : RecLock(w)
ReconcileCheck == \E w \in Workers : RecCheck(w)
ReconcileGet == \E w \in Workers : RecGet(w, GetErrors)
ReconcileCreate == \E w \in Workers : RecCreate(w, WriteErrors)
ReconcileUpdate == \E w \in Workers : RecUpdate(w, WriteErrors)
ReconcileReturn == \E w \in Workers : RecReturn(w)

\* the steps of Start and handleNewIssuer
LoopStep == LoopCancel \/ LoopRecv \/ HandleLock \/ HandleDecide \/ HandleReturn

Next ==
    \/ Notify
    \/ Cancel
    \/ DispatcherStop
    \/ CertEvent
    \/ ExternalEdit
    \/ LoopCancel
    \/ LoopRecv
    \/ HandleLock
    \/ HandleDecide
    \/ AcceptTrigger
    \/ HandleReturn
    \/ Reconciling
    \/ ReconcileLock
    \/ ReconcileCheck
    \/ ReconcileGet
    \/ ReconcileCreate
    \/ ReconcileUpdate
    \/ ReconcileReturn

Spec == Init /\ [][Next]_vars

\* the tasks run as the Go scheduler and sync.Mutex run them: a step that stays
\* possible is taken, a Lock that is possible again and again succeeds, a store
\* call returns, and the controller serves its channel and its queue while it
\* is dispatching.  The notifier, the context, the other writers of
\* certificates and the end of dispatching are under no obligation.
Fairness ==
    /\ WF_vars(LoopCancel \/ LoopRecv \/ HandleDecide \/ HandleReturn)
    /\ SF_vars(HandleLock)
    /\ WF_vars(AcceptTrigger)
    /\ \A w \in Workers :
        /\ WF_vars(StartReconcile(w))
        /\ SF_vars(RecLock(w))
        /\ WF_vars(RecCheck(w) \/ RecGet(w, GetErrors) \/ RecCreate(w, WriteErrors)
                    \/ RecUpdate(w, WriteErrors) \/ RecReturn(w))

FairSpec == Spec /\ Fairness

\* the system whose controller keeps receiving events and starting reconciles
\* for as long as it runs, cancelled or not, and in which the provisioner is
\* the only writer of certificates (store calls may fail)
NextDispatching ==
    \/ Notify
    \/ Cancel
    \/ LoopCancel
    \/ LoopRecv
    \/ HandleLock
    \/ HandleDecide
    \/ AcceptTrigger
    \/ HandleReturn
    \/ Reconciling
    \/ ReconcileLock
    \/ ReconcileCheck
    \/ ReconcileGet
    \/ ReconcileCreate
    \/ ReconcileUpdate
    \/ ReconcileReturn

FairDispatching == Init /\ [][NextDispatching]_vars /\ Fairness

\* the system with a store whose calls all succeed and no other writer of
\* certificates
ReliableGet == \E w \in Workers : RecGet(w, {})
ReliableCreate == \E w \in Workers : RecCreate(w, {})
ReliableUpdate == \E w \in Workers : RecUpdate(w, {})

NextReliable ==
    \/ Notify
    \/ Cancel
    \/ DispatcherStop
    \/ CertEvent
    \/ LoopCancel
    \/ LoopRecv
    \/ HandleLock
    \/ HandleDecide
    \/ AcceptTrigger
    \/ HandleReturn
    \/ Reconciling
    \/ ReconcileLock
    \/ ReconcileCheck
    \/ ReliableGet
    \/ ReliableCreate
    \/ ReliableUpdate
    \/ ReconcileReturn

SpecReliable == Init /\ [][NextReliable]_vars

\* the system the desired-name computation is checked in: a provisioner
\* constructed with any of NameOptionSets and an initial issuer, whose
\* Reconcile is invoked for the managed certificate each time the watch sees
\* it change; every store call succeeds
InitNames ==
    /\ opts \in NameOptionSets
    /\ trustDomain \in TrustDomains
    /\ initialIssuerRef = IssuerA
    /\ issuerRef = initialIssuerRef
    /\ issuerRefMutex = Free
    /\ issuerChangeChan = <<>>
    /\ reconcileChan = NoEvent
    /\ cancelled = FALSE
    /\ loopPc = "select"
    /\ newIssuer = Nil
    /\ dispatching = TRUE
    /\ workqueue = {}
    /\ recPc = [w \in Workers |-> "idle"]
    /\ recReq = [w \in Workers |-> NoReq]
    /\ recDesired = [w \in Workers |-> NoSpec]
    /\ recFetched = [w \in Workers |-> NoCert]
    /\ recOps = [w \in Workers |-> <<>>]
    /\ recResult = [w \in Workers |-> NoResult]
    /\ store = [id \in {Identity(opts.CertificateName, opts.CertificateNamespace)}
                        |-> NoCert]
    /\ sent = <<>>
    /\ handled = <<>>
    /\ offered = 0
    /\ lastDone = NoDone

NextNames ==
    \/ ExternalEdit
    \/ Reconciling
    \/ ReconcileLock
    \/ ReconcileCheck
    \/ ReliableGet
    \/ ReliableUpdate
    \/ ReconcileReturn

SpecNames == InitNames /\ [][NextNames]_vars

\* ------------------------------------------------------------------ claims
\* the identity of the managed certificate
Managed == Identity(opts.CertificateName, opts.CertificateNamespace)

\* the event loop is between two notifications
LoopIdle == loopPc \in {"select", "returned"}

\* C1 (invariant I1): when the provisioner was constructed with a non-nil
\* initial issuer reference, the active issuer reference is non-nil in every
\* reachable state, whatever notifications and reconciles took place.
C1_IssuerNeverCleared == initialIssuerRef # Nil => issuerRef # Nil

\* C1 witness: with an initial reference, a non-nil and then a nil notification
\* have been handled, a reconcile has written the certificate in between, and
\* the active reference is the initial one.
C1_Witness ==
    /\ initialIssuerRef # Nil
    /\ handled = <<IssuerB, Nil>>
    /\ LoopIdle
    /\ store[Managed] # NoCert
    /\ store[Managed].Labels = ""
    /\ store[Managed].Spec.IssuerRef = IssuerB
    /\ issuerRef = initialIssuerRef

\* C2: with an initial reference, handling a nil notification sets the active
\* reference to the initial reference, whatever it was, and offers no event on
\* reconcileChan: handleNewIssuer goes straight to its return.
C2_AbsentRestoresInitial ==
    [][(loopPc = "decide" /\ loopPc' # "decide"
            /\ newIssuer = Nil /\ initialIssuerRef # Nil)
        => (/\ issuerRef' = initialIssuerRef
            /\ offered' = offered
            /\ reconcileChan' = NoEvent
            /\ loopPc' = "unlock")]_vars

\* C2 witness: handleNewIssuer is about to return from handling nil, the active
\* reference was IssuerB before and is the initial IssuerA now, and the only
\* event ever offered is the one of the earlier notification.
C2_Witness ==
    /\ loopPc = "unlock"
    /\ newIssuer = Nil
    /\ handled = <<IssuerB, Nil>>
    /\ initialIssuerRef = IssuerA
    /\ issuerRef = IssuerA
    /\ offered = 1
    /\ reconcileChan = NoEvent

\* C3: handling a non-nil notification u (equal to the active reference or
\* not) sets the active reference to u and offers exactly one event on
\* reconcileChan, which carries the configured certificate name and
\* namespace; events are offered by nothing but the handling of a received
\* notification, one at a time.
C3_NonNilSetsAndTriggers ==
    /\ [][(loopPc = "decide" /\ loopPc' # "decide" /\ newIssuer # Nil)
            => (/\ issuerRef' = newIssuer
                /\ offered' = offered + 1
                /\ loopPc' = "send"
                /\ reconcileChan' =
                      [event |-> TRUE,
                       Object |-> [Name |-> opts.CertificateName,
                                   Namespace |-> opts.CertificateNamespace]])]_vars
    /\ [][offered' # offered
            => (loopPc = "decide" /\ offered' = offered + 1)]_vars
    /\ [](offered <= Len(handled))
    /\ [](reconcileChan # NoEvent => loopPc = "send")

\* C3 witness: the notification IssuerB is handled while IssuerB already is the
\* active reference, and a second event is on offer for it.
C3_Witness ==
    /\ loopPc = "send"
    /\ handled = <<IssuerB, IssuerB>>
    /\ issuerRef = IssuerB
    /\ offered = 2
    /\ reconcileChan = TriggerEvent

\* nothing is pending anywhere: no notification waits, the event loop is at its
\* select, no event is on offer, the work queue is empty, no Reconcile runs,
\* and the controller is still dispatching
Quiescent ==
    /\ ~cancelled
    /\ dispatching
    /\ issuerChangeChan = <<>>
    /\ loopPc = "select"
    /\ reconcileChan = NoEvent
    /\ workqueue = {}
    /\ \A w \in Workers : recPc[w] = "idle"

Returning(w) == recPc[w] = "ret"

\* C5: a Reconcile that finds no active issuer reference returns success
\* without any store call (no Get, no Create, no Update) and leaves the store
\* as it is: it goes from its nil test to its return, and a Reconcile is at a
\* store call only while the active reference is non-nil.
C5_NoIssuerNoStoreCall ==
    /\ [][\A w \in Workers :
            (recPc[w] = "check" /\ recPc'[w] # "check" /\ issuerRef = Nil)
                => (/\ recPc'[w] = "ret"
                    /\ recResult'[w] = Result("nil")
                    /\ recOps'[w] = <<>>
                    /\ store' = store)]_vars
    /\ [](\A w \in Workers :
            recPc[w] \in {"get", "create", "update"} => issuerRef # Nil)
    /\ [](\A w \in Workers :
            (Returning(w) /\ issuerRef = Nil)
                => (recOps[w] = <<>> /\ recResult[w] = Result("nil")))

\* C5 witness: a Reconcile returns success without a store call while the
\* active reference is nil and a certificate written earlier is in the store.
C5_Witness ==
    \E w \in Workers :
        /\ Returning(w)
        /\ issuerRef = Nil
        /\ recOps[w] = <<>>
        /\ recResult[w] = Result("nil")
        /\ store[Managed] # NoCert
        /\ store[Managed].Spec.IssuerRef = IssuerA

\* C6: with a non-nil active reference, Reconcile issues exactly one write.
\* When Get reported not-found it issues one Create, of a certificate whose
\* spec is the desired spec, and no Update; when Get succeeded it issues one
\* Update, of the fetched certificate with its whole spec replaced by the
\* desired spec, and no Create.  Reconcile returns nil exactly when the write
\* succeeded, and a failed write leaves the store as it is.
C6_ExactlyOneWrite ==
    /\ [][\A w \in Workers :
            (recPc[w] = "get" /\ recPc'[w] \in {"create", "update"})
                => (/\ recOps'[w] = <<"get">>
                    /\ store' = store
                    /\ (recPc'[w] = "create") = (store[ClientKey(recReq[w].Name)] = NoCert)
                    /\ recPc'[w] = "update"
                        => recFetched'[w] = store[ClientKey(recReq[w].Name)])]_vars
    /\ [][\A w \in Workers :
            (recPc[w] = "create" /\ recPc'[w] # "create")
                => (/\ recPc'[w] = "ret"
                    /\ recOps'[w] = <<"get", "create">>
                    /\ IF recResult'[w] = Result("nil")
                       THEN store' = [store EXCEPT ![ClientKey(recReq[w].Name)] =
                                [exists |-> TRUE, Name |-> recReq[w].Name,
                                 Namespace |-> recReq[w].Namespace, Labels |-> "",
                                 Spec |-> recDesired[w]]]
                       ELSE store' = store)]_vars
    /\ [][\A w \in Workers :
            (recPc[w] = "update" /\ recPc'[w] # "update")
                => (/\ recPc'[w] = "ret"
                    /\ recOps'[w] = <<"get", "update">>
                    /\ IF recResult'[w] = Result("nil")
                       THEN /\ store'[ClientKey(recReq[w].Name)].Spec = recDesired[w]
                            /\ store' = [store EXCEPT ![ClientKey(recReq[w].Name)] =
                                [Name      |-> recFetched[w].Name,
                                 Namespace |-> recFetched[w].Namespace,
                                 exists    |-> TRUE,
                                 Labels    |-> recFetched[w].Labels,
                                 Spec      |-> recDesired[w]]]
                       ELSE store' = store)]_vars
    /\ [](\A w \in Workers :
            (Returning(w) /\ recDesired[w] # NoSpec)
                => (/\ recDesired[w].IssuerRef = issuerRef
                    /\ recOps[w] \in {<<"get">>, <<"get", "create">>, <<"get", "update">>}
                    /\ recResult[w] = Result("nil")
                        => recOps[w] \in {<<"get", "create">>, <<"get", "update">>}))

\* C6 witness: a Reconcile returns success from an Update of a certificate
\* that another party had written: the stored spec is the desired spec, with
\* nothing of the fetched spec left.
C6_Witness ==
    \E w \in Workers :
        /\ Returning(w)
        /\ recOps[w] = <<"get", "update">>
        /\ recResult[w] = Result("nil")
        /\ recFetched[w].Spec.SecretName = "foreign-tls"
        /\ store[Managed].Spec = recDesired[w]
        /\ store[Managed].Spec.SecretName = "istiod-tls"
        /\ store[Managed].Labels = "external"

\* C7: when Get fails with a condition other than not-found, Reconcile
\* returns a failure that carries that condition, having issued the Get and
\* neither a Create nor an Update; the store and the active issuer reference
\* are left as they are.
C7_FetchFailureNoWrite ==
    /\ [][\A w \in Workers :
            (recPc[w] = "get" /\ recPc'[w] = "ret")
                => (/\ \E e \in GetErrors :
                        recResult'[w] =
                            [returned |-> TRUE, err |-> "failed to fetch cert: " \o e]
                    /\ recOps'[w] = <<"get">>
                    /\ store' = store
                    /\ issuerRef' = issuerRef)]_vars
    /\ [](\A w \in Workers :
            (Returning(w) /\ recOps[w] = <<"get">>)
                => recResult[w].err \in {"failed to fetch cert: " \o e : e \in GetErrors})
    /\ [][\A w \in Workers :
            (Returning(w) /\ ~Returning(w)')
                => (store' = store /\ issuerRef' = issuerRef)]_vars

\* C7 witness: a Reconcile returns the failure of a Get that was refused, and
\* the certificate in the store is the one an earlier Reconcile wrote.
C7_Witness ==
    \E w \in Workers :
        /\ Returning(w)
        /\ recOps[w] = <<"get">>
        /\ recResult[w] = Result("failed to fetch cert: Forbidden")
        /\ store[Managed] # NoCert
        /\ store[Managed].Spec.IssuerRef = issuerRef

\* C8: Reconcile is deterministic and idempotent.  lastDone holds the request
\* and the stored spec of the latest successful write, as long as no
\* notification has been handled and no other party has written since.  A
\* Reconcile for the same request that runs then computes that very spec as
\* its desired spec, and its successful write leaves the store as the earlier
\* one left it.
C8_ReconcileIdempotent ==
    /\ [][\A w \in Workers :
            (recPc[w] = "check" /\ recPc'[w] = "get"
                    /\ lastDone.done /\ lastDone.req = recReq[w])
                => recDesired'[w] = lastDone.spec]_vars
    /\ [][\A w \in Workers :
            (recPc[w] \in {"create", "update"} /\ recPc'[w] = "ret"
                    /\ recResult'[w] = Result("nil")
                    /\ lastDone.done /\ lastDone.req = recReq[w])
                => (/\ store'[ClientKey(recReq[w].Name)].Spec = lastDone.spec
                    /\ store' = store)]_vars

\* C8 witness: a second Reconcile returns from a successful Update of the
\* certificate the first one wrote: what it fetched is what it leaves.
C8_Witness ==
    \E w \in Workers :
        /\ Returning(w)
        /\ recOps[w] = <<"get", "update">>
        /\ recResult[w] = Result("nil")
        /\ recFetched[w].Labels = ""
        /\ recFetched[w] = store[Managed]
        /\ lastDone.done
        /\ lastDone.spec = recFetched[w].Spec

\* C9: notifications take effect in the order of their arrival.  Start
\* receives them in the order they were sent; between two notifications the
\* active reference is the one decided by the last notification received (the
\* initial reference for nil when there is one, the notified value otherwise),
\* so after A then B it is B; and the active reference is always the initial
\* reference, nil, or a value that was notified, whole.
C9_AppliedInArrivalOrder ==
    /\ handled \o issuerChangeChan = sent
    /\ (LoopIdle /\ handled = <<>>) => issuerRef = initialIssuerRef
    /\ (LoopIdle /\ handled # <<>>)
        => issuerRef = IF handled[Len(handled)] = Nil /\ initialIssuerRef # Nil
                       THEN initialIssuerRef
                       ELSE handled[Len(handled)]
    /\ issuerRef \in {initialIssuerRef, Nil} \cup {sent[i] : i \in 1..Len(sent)}

\* C9 witness: IssuerA and then IssuerB were sent and have both been handled,
\* and the active reference is IssuerB.
C9_Witness ==
    /\ sent = <<IssuerA, IssuerB>>
    /\ handled = sent
    /\ LoopIdle
    /\ issuerRef = IssuerB

\* C10: once the context is cancelled, Start eventually returns, also when a
\* notification is being handled and nobody receives from reconcileChan any
\* more.
C10_StartReturnsAfterCancel == cancelled ~> (loopPc = "returned")

\* C11: after the context has been cancelled, Start receives no further
\* notification from issuerChangeChan, also when one is pending at the moment
\* Start is at its select.
C11_NoReceiveAfterCancel == [][cancelled => handled' = handled]_vars

\* C12: the hand-off of an event on reconcileChan blocks.  An event is on offer
\* exactly while handleNewIssuer is at its send, so at most one is pending;
\* Start receives a notification only at its select, with no event on offer
\* before or after the receive; and the offer ends only by the controller's
\* channel source taking the event into the work queue.
C12_BlockingHandOff ==
    /\ []((reconcileChan # NoEvent) <=> (loopPc = "send"))
    /\ [][handled' # handled
            => (/\ loopPc = "select"
                /\ reconcileChan = NoEvent
                /\ reconcileChan' = NoEvent)]_vars
    /\ [][(reconcileChan # NoEvent /\ reconcileChan' # reconcileChan)
            => (/\ reconcileChan' = NoEvent
                /\ dispatching
                /\ reconcileChan.Object \in workqueue'
                /\ handled' = handled)]_vars

\* C12 witness: the event for the first notification is on offer, the second
\* notification has been sent and waits on issuerChangeChan.
C12_Witness ==
    /\ loopPc = "send"
    /\ reconcileChan = TriggerEvent
    /\ handled = <<IssuerA>>
    /\ issuerChangeChan = <<IssuerB>>

\* handleNewIssuer is between its Lock and its deferred Unlock
LoopInCritical == loopPc \in {"decide", "send", "unlock"}

\* Reconcile invocation w is between its Lock and its deferred Unlock
RecInCritical(w) == recPc[w] \in {"check", "get", "create", "update", "ret"}

\* C13: mutual exclusion.  At most one task, handleNewIssuer or one of the
\* Reconcile invocations, is between Lock and Unlock of issuerRefMutex, and
\* that task is the one holding the mutex; the write of issuerRef (at
\* "decide") and the read of issuerRef (at "check") are done by the holder.
C13_MutualExclusion ==
    /\ Cardinality({w \in Workers : RecInCritical(w)})
            + (IF LoopInCritical THEN 1 ELSE 0) <= 1
    /\ LoopInCritical <=> issuerRefMutex = LoopOwner
    /\ \A w \in Workers : RecInCritical(w) <=> issuerRefMutex = ReconcileOwner(w)
    /\ loopPc = "decide" => issuerRefMutex = LoopOwner
    /\ \A w \in Workers : recPc[w] = "check" => issuerRefMutex = ReconcileOwner(w)

\* C13 witness: one Reconcile is at its store call holding the mutex while
\* handleNewIssuer and another Reconcile both wait at Lock.
C13_Witness ==
    /\ loopPc = "lock"
    /\ \E w, v \in Workers :
        /\ recPc[w] = "get"
        /\ recPc[v] = "lock"
        /\ issuerRefMutex = ReconcileOwner(w)

\* C14: every Reconcile that has been invoked eventually returns, given that
\* its store calls return, also when handleNewIssuer is at its send on
\* reconcileChan and the controller has stopped receiving events.
C14_ReconcileReturns ==
    \A w \in Workers : (recPc[w] # "idle") ~> (recPc[w] = "idle")

\* C15 (invariant I2): every request in the work queue and every Reconcile
\* invocation is for the configured certificate name and namespace, whether it
\* came from the watch on certificates or from reconcileChan; every Create and
\* Update is therefore for that identity, and the other certificates of the
\* cluster stay as their owners wrote them.
C15_OnlyManagedWritten ==
    /\ workqueue \subseteq {Managed}
    /\ \A w \in Workers : recReq[w] # NoReq => recReq[w] = Managed
    /\ \A w \in Workers :
        recDesired[w] # NoSpec =>
            /\ NewCert(recReq[w], recDesired[w]).Name = opts.CertificateName
            /\ NewCert(recReq[w], recDesired[w]).Namespace = opts.CertificateNamespace
    /\ \A w \in Workers :
        recFetched[w] # NoCert =>
            /\ recFetched[w].Name = opts.CertificateName
            /\ recFetched[w].Namespace = opts.CertificateNamespace
    /\ \A id \in OtherCerts : store[id] = ForeignCert(id)
    /\ \A id \in Identities :
        (store[id] # NoCert /\ store[id].Labels = "") => id = Managed

\* C15 witness: no event was ever offered on reconcileChan, so the request
\* came from the watch on certificates; the Reconcile it started has updated
\* the managed certificate, and the other certificates are untouched.
C15_Witness ==
    /\ offered = 0
    /\ \E w \in Workers :
        /\ Returning(w)
        /\ recReq[w] = Managed
        /\ recOps[w] = <<"get", "update">>
        /\ recResult[w] = Result("nil")
        /\ store[Managed].Spec = recDesired[w]
    /\ \A id \in OtherCerts : store[id] = ForeignCert(id)

\* the revisions makeDNSNamesFromRevisions works on: an empty list stands for
\* the default revision alone
EffectiveRevisions ==
    IF opts.IstioRevisions = <<>> THEN <<"default">> ELSE opts.IstioRevisions

\* C16: the names of the desired spec.  The common name is the default-revision
\* name istiod.<namespace>.svc, whatever the revisions; the DNS names are, in
\* the order of the revisions and with duplicates kept, that name for the
\* revision default and istiod<r>.<namespace>.svc for any other revision r (an
\* empty list of revisions counting as default alone), followed by the
\* additional DNS names in their order.  For namespace foo, revisions default
\* and canary and the additional name extra.example.com these are
\* istiod.foo.svc, istiodcanary.foo.svc, extra.example.com.
C16_DesiredNames ==
    \A w \in Workers :
        recDesired[w] # NoSpec =>
            LET ns    == opts.CertificateNamespace
                revs  == EffectiveRevisions
                adds  == opts.AdditionalDNSNames
                names == recDesired[w].DNSNames
            IN  /\ recDesired[w].CommonName = "istiod." \o ns \o ".svc"
                /\ Len(names) = Len(revs) + Len(adds)
                /\ \A i \in 1..Len(revs) :
                    names[i] = IF revs[i] = "default"
                               THEN "istiod." \o ns \o ".svc"
                               ELSE "istiod" \o revs[i] \o "." \o ns \o ".svc"
                /\ \A i \in 1..Len(adds) : names[Len(revs) + i] = adds[i]
                /\ (/\ ns = "foo"
                    /\ opts.IstioRevisions = <<"default", "canary">>
                    /\ adds = <<"extra.example.com">>)
                    => (/\ recDesired[w].CommonName = "istiod.foo.svc"
                        /\ names = <<"istiod.foo.svc", "istiodcanary.foo.svc",
                                     "extra.example.com">>)
                /\ (opts.IstioRevisions = <<>> /\ ns = "foo" /\ adds = <<>>)
                    => names = <<"istiod.foo.svc">>

\* C16 witness: for namespace foo, the revision canary given twice and one
\* additional name, a Reconcile has written a certificate whose common name is
\* the default-revision name, which is not among its DNS names.
C16_Witness ==
    \E w \in Workers :
        /\ Returning(w)
        /\ recResult[w] = Result("nil")
        /\ opts.CertificateNamespace = "foo"
        /\ opts.IstioRevisions = <<"canary", "canary">>
        /\ opts.AdditionalDNSNames = <<"extra.example.com">>
        /\ store[Managed].Spec.CommonName = "istiod.foo.svc"
        /\ store[Managed].Spec.DNSNames =
                <<"istiodcanary.foo.svc", "istiodcanary.foo.svc", "extra.example.com">>

\* C17: the initial issuer reference is the one given at construction for
\* ever: no step changes it, whatever is notified and however a Reconcile
\* ends.  The active issuer reference is written by handleNewIssuer alone, at
\* its assignment; every step of a Reconcile leaves both references as they
\* are.
C17_InitialReferenceFixed ==
    /\ [][initialIssuerRef' = initialIssuerRef]_vars
    /\ [][issuerRef' # issuerRef
            => (loopPc = "decide" /\ loopPc' # "decide")]_vars
    /\ [][(\E w \in Workers : recPc'[w] # recPc[w])
            => (issuerRef' = issuerRef /\ initialIssuerRef' = initialIssuerRef)]_vars

\* C17 witness: nil and then IssuerB have been handled, a Reconcile has
\* written the certificate for IssuerB, and the initial reference still is
\* IssuerA.
C17_Witness ==
    /\ initialIssuerRef = IssuerA
    /\ handled = <<Nil, IssuerB>>
    /\ issuerRef = IssuerB
    /\ \E w \in Workers :
        /\ Returning(w)
        /\ recResult[w] = Result("nil")
        /\ recDesired[w] # NoSpec
        /\ recDesired[w].IssuerRef = IssuerB

\* C18: when no initial issuer reference was configured, handling a nil
\* notification sets the active reference to nil, whatever it was, and offers
\* one event on reconcileChan.  A Reconcile that then finds the reference nil
\* issues no store call, so a certificate written earlier stays in the store
\* with the issuer reference it was written with.
C18_NilWithoutInitial ==
    /\ [][(loopPc = "decide" /\ loopPc' # "decide"
                /\ newIssuer = Nil /\ initialIssuerRef = Nil)
            => (/\ issuerRef' = Nil
                /\ loopPc' = "send"
                /\ offered' = offered + 1
                /\ reconcileChan' = TriggerEvent)]_vars
    /\ [][\A w \in Workers :
            (recPc[w] = "check" /\ recPc'[w] # "check"
                    /\ initialIssuerRef = Nil /\ issuerRef = Nil)
                => (/\ recPc'[w] = "ret"
                    /\ recOps'[w] = <<>>
                    /\ store' = store)]_vars

\* C18 witness: without an initial reference, IssuerA and then nil have been
\* handled and two events offered; the Reconcile for the second returns
\* without a store call, and the certificate written for IssuerA is still in
\* the store.
C18_Witness ==
    /\ initialIssuerRef = Nil
    /\ handled = <<IssuerA, Nil>>
    /\ offered = 2
    /\ issuerRef = Nil
    /\ store[Managed] # NoCert
    /\ store[Managed].Labels = ""
    /\ store[Managed].Spec.IssuerRef = IssuerA
    /\ \E w \in Workers :
        /\ Returning(w)
        /\ recOps[w] = <<>>
        /\ recResult[w] = Result("nil")

\* Reconcile invocation w is at one of its store calls
AtStoreCall(w) == recPc[w] \in {"get", "create", "update"}

\* C19: a Reconcile holds issuerRefMutex from its read of the active
\* reference until its write has returned.  While it is at a store call, and
\* until it returns, the issuer reference of its desired spec is the active
\* reference; at most one Reconcile is at a store call; and the issuer
\* reference of the spec last written is the active reference, as long as no
\* notification has been handled since the write.
C19_WrittenIssuerIsActive ==
    /\ \A w \in Workers :
        (AtStoreCall(w) \/ (Returning(w) /\ recDesired[w] # NoSpec))
            => (/\ issuerRefMutex = ReconcileOwner(w)
                /\ loopPc # "decide"
                /\ recDesired[w].IssuerRef = issuerRef)
    /\ Cardinality({w \in Workers : AtStoreCall(w)}) <= 1
    /\ lastDone.done => lastDone.spec.IssuerRef = issuerRef

\* C19 witness: a Reconcile is at its Update with a spec for IssuerA, the
\* active reference, while the notification IssuerB has been received and
\* handleNewIssuer waits at Lock.
C19_Witness ==
    /\ loopPc = "lock"
    /\ newIssuer = IssuerB
    /\ issuerRef = IssuerA
    /\ \E w \in Workers :
        /\ recPc[w] = "update"
        /\ recDesired[w].IssuerRef = IssuerA

\* C20: deadlock freedom, for a controller that keeps receiving events.  The
\* mutex is free whenever neither handleNewIssuer nor a Reconcile is between
\* Lock and Unlock, so every exit path has released it; and no task waits for
\* ever: again and again Start is back at its select (or has returned), with
\* the Lock and the send of handleNewIssuer behind it, and again and again
\* every Reconcile invocation has returned.
C20_NoDeadlock ==
    /\ []((~LoopInCritical /\ \A w \in Workers : ~RecInCritical(w))
            => issuerRefMutex = Free)
    /\ []<>LoopIdle
    /\ \A w \in Workers : []<>(recPc[w] = "idle")

\* C20 witness: handleNewIssuer holds the mutex at its send on reconcileChan
\* after the context was cancelled, and a Reconcile waits at Lock.
C20_Witness ==
    /\ cancelled
    /\ dispatching
    /\ loopPc = "send"
    /\ issuerRefMutex = LoopOwner
    /\ \E w \in Workers : recPc[w] = "lock"

====
